---- MODULE Spec2Model ----
(***************************************************************************)
(* The leaking-bucket simulation of src/src/bucket_sim.ipynb.              *)
(*                                                                         *)
(* Numbers.  The notebook computes in IEEE doubles; the model computes on  *)
(* a decimal grid.  Levels h and flows Q are integers in units of          *)
(* 1/Scale, derivatives are integers in units of 1/(Scale*DScale), and     *)
(* every operation that rounds in the code (the square root, the           *)
(* division by A, the step update y + dt*f) rounds to the nearest grid     *)
(* value here.  Times are integers (ticks).  A float that is not a         *)
(* number (nan) is the value NaN.                                          *)
(*                                                                         *)
(* Configuration.  run_simulation fixes its configuration by literals      *)
(* (lines 171-190; its docstring, line 167: the area and the inflow "are   *)
(* given here").  The model draws the values of these literals from        *)
(* Configs, so that what the function does for other values is checked     *)
(* too.  No line of run_simulation, Bucket or BucketSystem inspects a      *)
(* value before it is used.                                                *)
(*                                                                         *)
(* Integrator.  solve_ivp (scipy, default method RK45) is not part of the  *)
(* repository.  It is modelled as the explicit stepper it is, reduced to   *)
(* one stage per step: it evaluates the derivative at the start point,     *)
(* then repeatedly advances by min(max_step, remaining time) along the     *)
(* last derivative and evaluates the derivative at the new point before    *)
(* recording it (RK45 computes f(t+h, y_new) inside the step).  A step     *)
(* whose derivative is nan cannot be accepted and ends the integration     *)
(* with status -1; an exception raised by the derivative function is not   *)
(* caught by solve_ivp or by run_simulation and ends the call.  Accuracy   *)
(* driven step rejection is not modelled, and neither is a time span       *)
(* with t_start = t_end.                                                   *)
(***************************************************************************)
EXTENDS Integers, Sequences, FiniteSets, TLC

VARIABLES
  grav,     \* the module global GRAV, in units of 1/GravDen
  cfg,      \* cfg[r]: the literals of run r's call of run_simulation
  pc,       \* pc[r]: where run r is
  backet,   \* backet[r]: the Bucket run r constructed, or NoObject
  system,   \* system[r]: the BucketSystem run r constructed, or NoObject
  solver,   \* solver[r]: the integrator's state and the samples recorded
  err,      \* err[r]: the exception that ended run r, or "none"
  sol,      \* sol[r]: the OdeResult run r returned, or NoObject
  call      \* the last direct call of BucketSystem.ode, or NoObject

vars == <<grav, cfg, pc, backet, system, solver, err, sol, call>>

(***************************************************************************)
(* Bounds and constants.                                                   *)
(***************************************************************************)
Scale == 10
DScale == 10
MaxT == 4
MaxLevel == 60
MaxNeg == 3
GRAV == 98
GravDen == 10

Runs == {1, 2}
NoObject == [none |-> TRUE]

(***************************************************************************)
(* Arithmetic on the grid.                                                 *)
(***************************************************************************)
Min(a, b) == IF a <= b THEN a ELSE b
Abs(a) == IF a < 0 THEN 0 - a ELSE a

\* a / b rounded to the nearest integer, ties to even (b # 0).
DivRound(a, b) ==
  LET n == IF b < 0 THEN 0 - a ELSE a
      d == Abs(b)
      fl == n \div d
      rem == n - fl * d
  IN  IF 2 * rem < d THEN fl
      ELSE IF 2 * rem > d THEN fl + 1
      ELSE IF fl % 2 = 0 THEN fl ELSE fl + 1

RECURSIVE ISqrtB(_, _, _)
\* The largest s in lo..hi with s*s <= n (lo*lo <= n).
ISqrtB(n, lo, hi) ==
  IF lo >= hi THEN lo
  ELSE LET mid == (lo + hi + 1) \div 2
       IN  IF mid * mid <= n THEN ISqrtB(n, mid, hi) ELSE ISqrtB(n, lo, mid - 1)

ISqrt(n) == ISqrtB(n, 0, Min(n, 40000))

\* sqrt(n / d) rounded to the nearest integer (n >= 0, d > 0).
SqrtR(n, d) == (ISqrt((4 * n) \div d) + 1) \div 2

Val(v) == [kind |-> "val", v |-> v]
NaN == [kind |-> "nan", v |-> 0]
Raise(e) == [kind |-> e, v |-> 0]
IsError(x) == x.kind \in {"ValueError", "ZeroDivisionError"}

(***************************************************************************)
(* The plant model.                                                        *)
(***************************************************************************)
\* Bucket(A=a): a dataclass with one field and no __post_init__.
Bucket(a) == [A |-> a]

\* BucketSystem(backet=b, flow_in=fin).
BucketSystem(b, fin) == [backet |-> b, flow_in |-> fin]

\* A control input: q until time nanFrom, not a number from then on
\* (nanFrom < 0: never).  The notebook's lambda t: 10.0 is [q |-> 100,
\* nanFrom |-> -1] at Scale = 10.
FlowIn(fin, tm) ==
  IF fin.nanFrom >= 0 /\ tm >= fin.nanFrom THEN NaN ELSE Val(fin.q)

\* sqrt(2 * GRAV * h) on the grid, for h >= 0.
FlowOut(h) == SqrtR(2 * grav * h * Scale, GravDen)

\* The same computation with h clamped at 0 before the square root.
OdeClamped(sys, tm, h) ==
  LET q == FlowIn(sys.flow_in, tm)
      hc == IF h < 0 THEN 0 ELSE h
  IN  IF sys.backet.A = 0 THEN Raise("ZeroDivisionError")
      ELSE IF q.kind = "nan" THEN NaN
      ELSE Val(DivRound((q.v - FlowOut(hc)) * DScale, sys.backet.A))

\* The same computation with sqrt(GRAV * h) for the outflow.
OdeNoTwo(sys, tm, h) ==
  LET q == FlowIn(sys.flow_in, tm)
  IN  IF h < 0 THEN Raise("ValueError")
      ELSE IF sys.backet.A = 0 THEN Raise("ZeroDivisionError")
      ELSE IF q.kind = "nan" THEN NaN
      ELSE Val(DivRound((q.v - SqrtR(grav * h * Scale, GravDen)) * DScale,
                        sys.backet.A))

\* BucketSystem.ode: (flow_in(t) - sqrt(2 * GRAV * h)) / A.  Python evaluates
\* flow_in(t), then math.sqrt, which raises ValueError for a negative
\* argument, then the subtraction, then the division, which raises
\* ZeroDivisionError for A = 0 (also for a nan numerator).
Ode(sys, tm, h) ==
  LET q == FlowIn(sys.flow_in, tm)
  IN  IF h < 0 THEN Raise("ValueError")
      ELSE IF sys.backet.A = 0 THEN Raise("ZeroDivisionError")
      ELSE IF q.kind = "nan" THEN NaN
      ELSE Val(DivRound((q.v - FlowOut(h)) * DScale, sys.backet.A))

\* What an evaluation of ode writes: nothing (it reads GRAV, self.flow_in
\* and self.backet.A).
OdeWritesGrav == grav' = grav + 1
OdeWrites == grav' = grav

(***************************************************************************)
(* Configurations: the values of the literals of run_simulation.           *)
(***************************************************************************)
Areas == {-1, 0, 1, 5}
Flows == {-100, 0, 5, 14, 100}
Inflows == [q : Flows, nanFrom : {-1, 2}]
InitialLevels == {-10, 0, 10}
TimeSpans == {<<0, MaxT>>, <<MaxT, 0>>}
MaxSteps == {0, 1, 2}
Configs ==
  [area : Areas, flow_in : Inflows, h0 : InitialLevels,
   t_span : TimeSpans, max_step : MaxSteps]

\* The notebook's own literals, on the grid: A = 5.0, flow_in = 10.0,
\* h0 = 0.0, a forward time span from 0, a positive max_step.
Literals ==
  [area |-> 5, flow_in |-> [q |-> 100, nanFrom |-> -1], h0 |-> 0,
   t_span |-> <<0, MaxT>>, max_step |-> 1]

NoSolver ==
  [t |-> 0, y |-> 0, f |-> NoObject, status |-> "none",
   ts |-> <<>>, ys |-> <<>>, nfev |-> 0]

(***************************************************************************)
(* run_simulation, one action per step of its body.                        *)
(***************************************************************************)
\* Lines 171-183: Bucket(A=...), BucketSystem(...), h0, t_span.
Configure(r) ==
  /\ pc[r] = "Called"
  /\ backet' = [backet EXCEPT ![r] = Bucket(cfg[r].area)]
  /\ system' = [system EXCEPT ![r] =
                  BucketSystem(Bucket(cfg[r].area), cfg[r].flow_in)]
  /\ pc' = [pc EXCEPT ![r] = "Configured"]
  /\ UNCHANGED <<grav, cfg, solver, err, sol, call>>

\* The time span handed to solve_ivp: t_span as it is.
TSpanArg(c) == c.t_span

\* Lines 186-191: solve_ivp is entered with fun, t_span, y0 = [h0] and
\* max_step; it rejects max_step <= 0 before it evaluates fun.
CallSolveIvp(r) ==
  /\ pc[r] = "Configured"
  /\ IF cfg[r].max_step <= 0
       THEN /\ pc' = [pc EXCEPT ![r] = "Raised"]
            /\ err' = [err EXCEPT ![r] = "ValueError"]
            /\ UNCHANGED solver
       ELSE /\ pc' = [pc EXCEPT ![r] = "Integrating"]
            /\ solver' = [solver EXCEPT ![r] =
                 [t |-> TSpanArg(cfg[r])[1], y |-> cfg[r].h0, f |-> NoObject,
                  status |-> "running", ts |-> <<TSpanArg(cfg[r])[1]>>,
                  ys |-> <<cfg[r].h0>>, nfev |-> 0]]
            /\ UNCHANGED err
  /\ UNCHANGED <<grav, cfg, backet, system, sol, call>>

\* The integrator evaluates fun(t0, y0) = system.ode(t0, h0).
SolverInit(r) ==
  /\ pc[r] = "Integrating"
  /\ solver[r].status = "running"
  /\ solver[r].f = NoObject
  /\ LET f0 == Ode(system[r], solver[r].t, solver[r].y)
     IN  IF IsError(f0)
           THEN /\ pc' = [pc EXCEPT ![r] = "Raised"]
                /\ err' = [err EXCEPT ![r] = f0.kind]
                /\ solver' = [solver EXCEPT ![r].nfev = @ + 1]
           ELSE /\ solver' = [solver EXCEPT ![r].f = f0, ![r].nfev = @ + 1]
                /\ UNCHANGED <<pc, err>>
  /\ OdeWrites
  /\ UNCHANGED <<cfg, backet, system, sol, call>>

\* One step of the integrator, from t towards t_bound, of size at most
\* max_step; the derivative at the new point is evaluated before the
\* point is recorded.
SolverStep(r) ==
  /\ pc[r] = "Integrating"
  /\ solver[r].status = "running"
  /\ solver[r].f # NoObject
  /\ LET tb == TSpanArg(cfg[r])[2]
         s == solver[r]
         dir == IF tb >= TSpanArg(cfg[r])[1] THEN 1 ELSE -1
         dt == Min(cfg[r].max_step, Abs(tb - s.t))
         tn == s.t + dir * dt
         yn == s.y + DivRound(dir * dt * s.f.v, DScale)
         fn == IF s.f.kind = "nan" THEN NaN ELSE Ode(system[r], tn, yn)
     IN  /\ s.t # tb
         /\ IF IsError(fn)
              THEN /\ pc' = [pc EXCEPT ![r] = "Raised"]
                   /\ err' = [err EXCEPT ![r] = fn.kind]
                   /\ solver' = [solver EXCEPT ![r].nfev = @ + 1]
              ELSE IF fn.kind = "nan"
              THEN /\ solver' = [solver EXCEPT ![r].status = "failed",
                                               ![r].nfev = @ + 1]
                   /\ UNCHANGED <<pc, err>>
              ELSE /\ solver' = [solver EXCEPT ![r] =
                        [t |-> tn, y |-> yn, f |-> fn,
                         status |-> IF tn = tb THEN "finished" ELSE "running",
                         ts |-> Append(s.ts, tn), ys |-> Append(s.ys, yn),
                         nfev |-> s.nfev + 1]]
                   /\ UNCHANGED <<pc, err>>
  /\ OdeWrites
  /\ UNCHANGED <<cfg, backet, system, sol, call>>

\* Lines 186 and 193: solve_ivp returns its OdeResult and run_simulation
\* returns it as it is.
Return(r) ==
  /\ pc[r] = "Integrating"
  /\ solver[r].status \in {"finished", "failed"}
  /\ sol' = [sol EXCEPT ![r] =
       [success |-> solver[r].status = "finished",
        status |-> IF solver[r].status = "finished" THEN 0 ELSE -1,
        t |-> solver[r].ts, y |-> solver[r].ys, nfev |-> solver[r].nfev]]
  /\ pc' = [pc EXCEPT ![r] =
       IF solver[r].status = "finished" THEN "Completed" ELSE "Failed"]
  /\ UNCHANGED <<grav, cfg, backet, system, solver, err, call>>

\* A direct call system.ode(t, h), on the system and the arguments the
\* caller chose.
OdeCall ==
  /\ call # NoObject
  /\ call.res = NoObject
  /\ call' = [call EXCEPT !.res = Ode(call.sys, call.t, call.h)]
  /\ OdeWrites
  /\ UNCHANGED <<cfg, pc, backet, system, solver, err, sol>>

(***************************************************************************)
(* Specifications.                                                         *)
(***************************************************************************)
InitRuns(c) ==
  /\ grav = GRAV
  /\ cfg = [r \in Runs |-> c]
  /\ pc = [r \in Runs |-> "Called"]
  /\ backet = [r \in Runs |-> NoObject]
  /\ system = [r \in Runs |-> NoObject]
  /\ solver = [r \in Runs |-> NoSolver]
  /\ err = [r \in Runs |-> "none"]
  /\ sol = [r \in Runs |-> NoObject]

\* Every run is a call of run_simulation with the same literals.
Init ==
  /\ \E c \in Configs : InitRuns(c)
  /\ call = NoObject

\* One call of run_simulation.
Next ==
  \/ Configure(1)
  \/ CallSolveIvp(1)
  \/ SolverInit(1)
  \/ SolverStep(1)
  \/ Return(1)

Spec == Init /\ [][Next]_vars

\* Two calls of run_simulation with the same literals, interleaved.
NextPair ==
  \/ \E r \in Runs : Configure(r)
  \/ \E r \in Runs : CallSolveIvp(r)
  \/ \E r \in Runs : SolverInit(r)
  \/ \E r \in Runs : SolverStep(r)
  \/ \E r \in Runs : Return(r)

SpecPair == Init /\ [][NextPair]_vars

\* Direct calls of ode.
OdeAreas == Areas \cup {2}
OdeLevels == (0 - MaxNeg)..MaxLevel

InitOde ==
  /\ InitRuns(Literals)
  /\ \E a \in OdeAreas, fin \in Inflows, tm \in 0..MaxT, h \in OdeLevels :
       call = [sys |-> BucketSystem(Bucket(a), fin), t |-> tm, h |-> h,
               res |-> NoObject]

NextOde == OdeCall

SpecOde == InitOde /\ [][NextOde]_vars

(***************************************************************************)
(* Vocabulary of the properties.                                           *)
(***************************************************************************)
TStart(c) == c.t_span[1]
TEnd(c) == c.t_span[2]

\* The configurations the specification calls invalid for run_simulation.
InvalidRunConfig(c) == TStart(c) >= TEnd(c) \/ c.h0 < 0 \/ c.max_step <= 0

\* A valid tank and a valid run configuration.
ValidConfig(c) == c.area > 0 /\ ~InvalidRunConfig(c)

Done(r) == pc[r] \in {"Completed", "Failed", "Raised"}

StrictlyIncreasing(sq) == \A i \in 1..(Len(sq) - 1) : sq[i] < sq[i + 1]
NonDecreasing(sq) == \A i \in 1..(Len(sq) - 1) : sq[i] <= sq[i + 1]

\* 2*g*h and q^2 in one unit, for a level h and a flow q of the grid.
TwoGH(h) == 2 * GRAV * h * Scale
QSq(q) == q * q * GravDen

\* s is the grid value nearest to sqrt(2*g*h).
NearestSqrt(s, h) ==
  /\ s = 0 \/ (2 * s - 1) * (2 * s - 1) * GravDen <= 4 * TwoGH(h)
  /\ 4 * TwoGH(h) < (2 * s + 1) * (2 * s + 1) * GravDen

\* v is a grid value nearest to n / a (a > 0).
NearestQuotient(v, n, a) == 2 * Abs(a * v - n) <= a

(***************************************************************************)
(* C1.  Constructing a Bucket with area A <= 0 fails at construction: no   *)
(* Bucket with A <= 0 ever exists, and a run given such an area does not   *)
(* get past its construction.                                              *)
(***************************************************************************)
C1_NonPositiveAreaRejectedAtConstruction ==
  \A r \in Runs :
    cfg[r].area <= 0 => backet[r] = NoObject /\ pc[r] \in {"Called", "Raised"}

(***************************************************************************)
(* C2.  A call of run_simulation whose configuration is invalid (t_start   *)
(* >= t_end, initial level < 0 or max_step <= 0) never enters Integrating  *)
(* (nor a state after it) and never evaluates the derivative function.     *)
(***************************************************************************)
C2_InvalidConfigurationNeverIntegrates ==
  \A r \in Runs :
    InvalidRunConfig(cfg[r]) =>
      /\ pc[r] \notin {"Integrating", "Completed", "Failed"}
      /\ solver[r].nfev = 0

(***************************************************************************)
(* C3.  A run with a valid configuration whose integration began and       *)
(* ended before t_end did not raise: it is Failed and returned a           *)
(* Trajectory with success = false, a non-zero status and the samples      *)
(* computed so far.                                                        *)
(***************************************************************************)
C3_UnfinishedIntegrationIsReported ==
  \A r \in Runs :
    ( /\ ValidConfig(cfg[r])
      /\ Done(r)
      /\ solver[r].status # "none"
      /\ solver[r].t # TEnd(cfg[r]) ) =>
      /\ pc[r] = "Failed"
      /\ sol[r] # NoObject
      /\ sol[r].success = FALSE
      /\ sol[r].status # 0
      /\ sol[r].t = solver[r].ts
      /\ sol[r].y = solver[r].ys

(***************************************************************************)
(* C4.  For every system, every t and every h < 0, ode(t, h) raises the    *)
(* domain error of the square root (ValueError) and yields no derivative;  *)
(* in particular it is not the value ode yields at h = 0.                  *)
(***************************************************************************)
C4_NegativeLevelIsDomainError ==
  (call # NoObject /\ call.res # NoObject /\ call.h < 0) =>
    call.res = Raise("ValueError")

C4_Witness ==
  /\ call # NoObject
  /\ call.h < 0
  /\ call.sys.backet.A > 0
  /\ call.res = Raise("ValueError")

(***************************************************************************)
(* C5.  A run with a valid configuration moves only along Called ->        *)
(* Configured -> Integrating -> {Completed | Failed}; Completed and        *)
(* Failed are never left and their Trajectory never changes; a Completed   *)
(* run has a Trajectory with success = true, a Failed run one with         *)
(* success = false.                                                        *)
(***************************************************************************)
C5_Lifecycle ==
  [][\A r \in Runs :
       ValidConfig(cfg[r]) =>
         /\ pc[r] = "Called" => pc'[r] \in {"Called", "Configured"}
         /\ pc[r] = "Configured" => pc'[r] \in {"Configured", "Integrating"}
         /\ pc[r] = "Integrating" =>
              pc'[r] \in {"Integrating", "Completed", "Failed"}
         /\ pc[r] \in {"Completed", "Failed"} =>
              pc'[r] = pc[r] /\ sol'[r] = sol[r]
         /\ pc'[r] = "Completed" => sol'[r] # NoObject /\ sol'[r].success
         /\ pc'[r] = "Failed" => sol'[r] # NoObject /\ ~sol'[r].success]_vars

C8_MonotoneApproachFromEmpty ==
  \A r \in Runs :
    ( /\ ValidConfig(cfg[r])
      /\ cfg[r].h0 = 0
      /\ cfg[r].flow_in.q > 0
      /\ cfg[r].flow_in.nanFrom < 0 ) =>
      /\ pc[r] # "Raised"
      /\ NonDecreasing(solver[r].ys)

(***************************************************************************)
(* C9.  In a run started from h(0) >= 0 with a non-negative inflow, no     *)
(* sample recorded is negative, and so none of a successful run's          *)
(* Trajectory is (the bound holds with tolerance delta = 0).               *)
(***************************************************************************)
C9_SamplesNonNegative ==
  \A r \in Runs :
    (cfg[r].h0 >= 0 /\ cfg[r].flow_in.q >= 0) =>
      /\ \A i \in 1..Len(solver[r].ys) : solver[r].ys[i] >= 0
      /\ pc[r] = "Completed" => \A i \in 1..Len(sol[r].y) : sol[r].y[i] >= 0

\* A successful run whose level fell towards zero and stayed non-negative.
C9_Witness ==
  /\ pc[1] = "Completed"
  /\ cfg[1].flow_in.q >= 0
  /\ cfg[1].area > 0
  /\ cfg[1].h0 > 0
  /\ sol[1].y[Len(sol[1].y)] < cfg[1].h0
  /\ \A i \in 1..Len(sol[1].y) : sol[1].y[i] >= 0

====
